---- MODULE Spec2Model ----
(***************************************************************************)
(* Inclusive Learning Partner: the Express backend (image-analysis         *)
(* pipeline, lowdb-backed notes/captions/settings) and the React client    *)
(* pages that call it.                                                     *)
(***************************************************************************)
EXTENDS Integers, Sequences, FiniteSets, TLC

VARIABLES
  now,                   \* Date.now() of the server process
  objectDetectionModel,  \* the coco-ssd detector: "loading", "loaded", "undefined"
  model,                 \* TRUE when GEMINI_API_KEY configured the cloud model
  uploads,               \* the uploads/ directory: path -> kind of bytes
  req,                   \* the POST /api/analyze-image requests
  dbFile,                \* db.json
  dbData,                \* db.data, the document in memory
  writer,                \* the file writer behind db.write()
  hreq,                  \* the requests to /api/notes
  settings,              \* client: the AccessibilityProvider's settings
  mountFetch,            \* client: the provider's GET /api/settings on mount
  selectedImage,         \* client: ImageRecognition state
  description,           \* client: ImageRecognition state
  isAnalyzing,           \* client: ImageRecognition state
  useGemini,             \* client: ImageRecognition state
  reader,                \* client: the FileReader of handleFileUpload
  run,                   \* client: the calls of analyzeImage
  queue,                 \* client: the setSettings updaters not yet rendered
  localStorage,          \* client: the item 'accessibility-settings'
  document,              \* client: classes of <html> and <body>, --font-size
  posts,                 \* client: the POST /api/settings fired so far
  mounted,               \* client: what the provider started from
  page,                  \* client: the page shown: "captions", "notes", "reader"
  isListening,           \* client: isListening of the page shown
  recognitionRef,        \* client: recognitionRef.current of the page (0: null)
  sessions,              \* client: the SpeechRecognition objects created
  captions,              \* client: LiveCaptioning's caption history
  currentCaption,        \* client: LiveCaptioning's interim caption
  captionsFetch,         \* client: LiveCaptioning's GET /api/captions on mount
  saved,                 \* client: the POST /api/captions fired by saveCaption
  notes,                 \* client: SpeechNotes' text, as the pieces appended
  isPlaying,             \* client: ReaderInterface state
  speechRate,            \* client: ReaderInterface state, in steps of 0.25
  synth                  \* client: window.speechSynthesis

imageVars == <<objectDetectionModel, model, uploads, req>>
dbVars == <<dbFile, dbData, writer, hreq>>
providerVars == <<queue, localStorage, document, posts, mounted>>
speechVars == <<page, isListening, recognitionRef, sessions, captions,
                currentCaption, captionsFetch, saved, notes, isPlaying,
                speechRate, synth>>
pageVars == <<selectedImage, description, isAnalyzing, useGemini, reader, run,
              speechVars>>
uiVars == <<settings, mountFetch, selectedImage, description, isAnalyzing,
            useGemini, reader, run, providerVars, speechVars>>

vars == <<now, objectDetectionModel, model, uploads, req, dbFile, dbData, writer,
          hreq, settings, mountFetch, selectedImage, description, isAnalyzing,
          useGemini, reader, run, queue, localStorage, document, posts, mounted,
          page, isListening, recognitionRef, sessions, captions, currentCaption,
          captionsFetch, saved, notes, isPlaying, speechRate, synth>>

outsideImage == <<dbVars, uiVars>>
outsideDb == <<imageVars, uiVars>>
outsideUi == <<now, imageVars, dbVars, providerVars, speechVars>>
outsideSpeech == <<now, imageVars, dbVars, settings, mountFetch, selectedImage,
                   description, isAnalyzing, useGemini, reader, run, providerVars>>

----------------------------------------------------------------------------
(* Bounds                                                                  *)

MaxClock == 1
MaxReqs == 2
MaxDbReqs == 3
MaxRuns == 2
MaxPosts == 3
MaxSessions == 2
MaxFinals == 2

Reqs == 1..MaxReqs
DbReqs == 1..MaxDbReqs
Runs == 1..MaxRuns
Sessions == 1..MaxSessions

----------------------------------------------------------------------------
(* Generic helpers                                                         *)

EndsWith(s, suffix) ==
  /\ Len(s) >= Len(suffix)
  /\ SubSeq(s, Len(s) - Len(suffix) + 1, Len(s)) = suffix

RECURSIVE Join(_, _)
Join(parts, sep) ==
  IF parts = <<>> THEN ""
  ELSE IF Len(parts) = 1 THEN parts[1]
  ELSE parts[1] \o sep \o Join(Tail(parts), sep)

RECURSIVE Distinct(_)
Distinct(s) ==
  IF s = <<>> THEN <<>>
  ELSE LET front == Distinct(SubSeq(s, 1, Len(s) - 1))
           last == s[Len(s)]
       IN IF \E i \in 1..Len(front) : front[i] = last THEN front
          ELSE Append(front, last)

IsSpace(c) == c \in {" ", "\n"}

RECURSIVE TrimLeft(_)
TrimLeft(t) ==
  IF t # <<>> /\ IsSpace(Head(t)) THEN TrimLeft(Tail(t)) ELSE t

RECURSIVE TrimRight(_)
TrimRight(t) ==
  IF t # <<>> /\ IsSpace(t[Len(t)]) THEN TrimRight(SubSeq(t, 1, Len(t) - 1)) ELSE t

Trim(t) == TrimRight(TrimLeft(t))

ReplaceNewlines(t) == [i \in 1..Len(t) |-> IF t[i] = "\n" THEN " " ELSE t[i]]

\* Date.now() advances
Tick ==
  /\ now < MaxClock
  /\ now' = now + 1
  /\ UNCHANGED <<imageVars, dbVars, uiVars>>

----------------------------------------------------------------------------
(* Persistence: the lowdb document and the notes, captions and settings    *)
(* endpoints                                                               *)

\* req.body.text: missing or empty, or a text of its own for each request
NoteTexts(r) == {"", "note " \o ToString(r)}

\* req.body of POST /api/captions: without text and timestamp, or with both
CaptionBodies(r) ==
  { <<>>, [text |-> "caption " \o ToString(r), timestamp |-> "09:30"] }

\* req.body of POST /api/settings
SettingsBodies == { [contrastMode |-> "light", dyslexiaFont |-> TRUE] }

\* a settings record left in db.json by an earlier run
StoredSettings == [contrastMode |-> "dark", language |-> "en-US"]

\* const defaultData = { notes: [], captions: [], settings: {} }
defaultData == [notes |-> <<>>, captions |-> <<>>, settings |-> <<>>]

\* db.json before start-up: no file, a whole document, or a document written
\* before the captions collection existed
BootFiles ==
  { <<>>,
    << [notes |-> <<>>, captions |-> <<>>, settings |-> StoredSettings] >>,
    << [notes |-> <<>>, settings |-> StoredSettings] >> }

\* await db.read(); db.data ||= defaultData; await db.write();
\* read() keeps the constructor's defaultData when there is no file and
\* takes the parsed document as it is otherwise
Startup(file) == IF file = <<>> THEN defaultData ELSE file[1]

\* { ...a, ...b }
Merge(a, b) ==
  [k \in DOMAIN a \cup DOMAIN b |-> IF k \in DOMAIN b THEN b[k] ELSE a[k]]

NoNote == [id |-> "", text |-> "", date |-> -1]

NoBody ==
  [status |-> 0, note |-> NoNote, list |-> <<>>, settings |-> <<>>, error |-> ""]

IdleDbReq ==
  [ kind |-> "", pc |-> "idle", text |-> "", body |-> <<>>, seq |-> 0,
    snap |-> defaultData, prev |-> <<>>, note |-> NoNote, resp |-> NoBody,
    after |-> {}, overlapped |-> FALSE ]

IdleWriter ==
  [ locked |-> FALSE, data |-> defaultData, starter |-> {}, prev |-> {},
    hasNext |-> FALSE, nextData |-> defaultData, next |-> {} ]

DbIdle ==
  /\ dbFile = defaultData
  /\ dbData = defaultData
  /\ writer = IdleWriter
  /\ hreq = [r \in DbReqs |-> IdleDbReq]

InFlight(r) == hreq[r].pc \notin {"idle", "done", "threw"}

IsWrite(kind) == kind \in {"postNote", "postCaption", "postSettings"}

\* the requests reach the server one after the other: r is the next one
NextRequest(r) ==
  /\ hreq[r].pc = "idle"
  /\ \A o \in DbReqs : o < r => hreq[o].pc # "idle"

\* the POSTs that have been answered with 200
Answered(kind) ==
  {o \in DbReqs : hreq[o].kind = kind /\ hreq[o].pc = "done"
                  /\ hreq[o].resp.status = 200}

\* a writing handler starts as r while those of `others` are under way
Accept(r, request) ==
  LET others == {o \in DbReqs : o # r /\ IsWrite(hreq[o].kind) /\ InFlight(o)}
  IN [o \in DbReqs |->
        IF o = r THEN [request EXCEPT !.overlapped = (others # {})]
        ELSE IF o \in others THEN [hreq[o] EXCEPT !.overlapped = TRUE]
        ELSE hreq[o]]

\* db.write(): the document is serialised at the call; one file write runs at
\* a time and a call made meanwhile leaves its data for the following write
WriteCall(w, r, data) ==
  IF w.locked
  THEN [w EXCEPT !.hasNext = TRUE, !.nextData = data, !.next = @ \cup {r}]
  ELSE [w EXCEPT !.locked = TRUE, !.data = data, !.starter = {r}]

\* PostNotes without the `if (!text)` check
PostNotesUnchecked(r, text) ==
  /\ NextRequest(r)
  /\ hreq' = Accept(r, [IdleDbReq EXCEPT !.kind = "postNote", !.pc = "reading",
                                         !.text = text])
  /\ UNCHANGED <<now, dbFile, dbData, writer, outsideDb>>

\* app.post('/api/notes') up to await db.read()
PostNotes(r, text) ==
  /\ NextRequest(r)
  /\ IF text = ""
     THEN hreq' = [hreq EXCEPT ![r] =
                     [@ EXCEPT !.kind = "postNote", !.pc = "done",
                               !.resp = [NoBody EXCEPT !.status = 400,
                                                       !.error = "Text required"]]]
     ELSE hreq' = Accept(r, [IdleDbReq EXCEPT !.kind = "postNote", !.pc = "reading",
                                              !.text = text])
  /\ UNCHANGED <<now, dbFile, dbData, writer, outsideDb>>

\* app.get('/api/notes') up to await db.read()
GetNotes(r) ==
  /\ NextRequest(r)
  /\ hreq' = [hreq EXCEPT ![r] =
                [@ EXCEPT !.kind = "getNotes", !.pc = "reading",
                          !.after = Answered("postNote")]]
  /\ UNCHANGED <<now, dbFile, dbData, writer, outsideDb>>

\* app.post('/api/captions') up to await db.read(): the body is not checked
PostCaptions(r, body) ==
  /\ NextRequest(r)
  /\ hreq' = Accept(r, [IdleDbReq EXCEPT !.kind = "postCaption", !.pc = "reading",
                                         !.body = body])
  /\ UNCHANGED <<now, dbFile, dbData, writer, outsideDb>>

\* app.get('/api/captions') up to await db.read()
GetCaptions(r) ==
  /\ NextRequest(r)
  /\ hreq' = [hreq EXCEPT ![r] =
                [@ EXCEPT !.kind = "getCaptions", !.pc = "reading",
                          !.after = Answered("postCaption")]]
  /\ UNCHANGED <<now, dbFile, dbData, writer, outsideDb>>

\* app.post('/api/settings') up to await db.read(), as the seq-th POST of the
\* client (0: of another client)
SettingsPosted(r, body, seq) ==
  Accept(r, [IdleDbReq EXCEPT !.kind = "postSettings", !.pc = "reading",
                              !.body = body, !.seq = seq])

PostSettings(r, body) ==
  /\ NextRequest(r)
  /\ hreq' = SettingsPosted(r, body, 0)
  /\ UNCHANGED <<now, dbFile, dbData, writer, outsideDb>>

\* app.get('/api/settings') up to await db.read()
SettingsAsked(r) ==
  [hreq EXCEPT ![r] = [@ EXCEPT !.kind = "getSettings", !.pc = "reading",
                                !.after = Answered("postSettings")]]

GetSettings(r) ==
  /\ NextRequest(r)
  /\ hreq' = SettingsAsked(r)
  /\ UNCHANGED <<now, dbFile, dbData, writer, outsideDb>>

\* db.read(): the adapter reads and parses db.json
FileRead(r) ==
  /\ hreq[r].pc = "reading"
  /\ hreq' = [hreq EXCEPT ![r] = [@ EXCEPT !.pc = "parsed", !.snap = dbFile]]
  /\ UNCHANGED <<now, dbFile, dbData, writer, outsideDb>>

\* PostNotesRead writing the document as read, the new note left out
PostNotesReadNoPush(r) ==
  /\ hreq[r].pc = "parsed"
  /\ hreq[r].kind = "postNote"
  /\ LET newNote == [id |-> ToString(now), text |-> hreq[r].text, date |-> now]
     IN /\ dbData' = hreq[r].snap
        /\ writer' = WriteCall(writer, r, hreq[r].snap)
        /\ hreq' = [hreq EXCEPT ![r] = [@ EXCEPT !.pc = "writing", !.note = newNote,
                                                 !.prev = hreq[r].snap.notes,
                                                 !.snap = defaultData]]
  /\ UNCHANGED <<now, dbFile, outsideDb>>

\* db.read() resolves in a POST: db.data is replaced, the note is pushed and
\* db.write() is called
PostNotesRead(r) ==
  /\ hreq[r].pc = "parsed"
  /\ hreq[r].kind = "postNote"
  /\ LET newNote == [id |-> ToString(now), text |-> hreq[r].text, date |-> now]
         data == [hreq[r].snap EXCEPT !.notes = Append(@, newNote)]
     IN /\ dbData' = data
        /\ writer' = WriteCall(writer, r, data)
        /\ hreq' = [hreq EXCEPT ![r] = [@ EXCEPT !.pc = "writing", !.note = newNote,
                                                 !.prev = hreq[r].snap.notes,
                                                 !.snap = defaultData]]
  /\ UNCHANGED <<now, dbFile, outsideDb>>

\* db.read() resolves in a GET: res.json(db.data.notes)
GetNotesRead(r) ==
  /\ hreq[r].pc = "parsed"
  /\ hreq[r].kind = "getNotes"
  /\ dbData' = hreq[r].snap
  /\ hreq' = [hreq EXCEPT ![r] =
                [@ EXCEPT !.pc = "done", !.snap = defaultData,
                          !.resp = [NoBody EXCEPT !.status = 200,
                                                  !.list = hreq[r].snap.notes]]]
  /\ UNCHANGED <<now, dbFile, writer, outsideDb>>

\* { id: Date.now().toString(), text, timestamp: timestamp || new Date().toISOString() }
\* as JSON: an undefined text leaves no key
NewCaption(body, t) ==
  LET stamp == IF "timestamp" \in DOMAIN body THEN body.timestamp ELSE ToString(t)
  IN IF "text" \in DOMAIN body
     THEN [id |-> ToString(t), text |-> body.text, timestamp |-> stamp]
     ELSE [id |-> ToString(t), timestamp |-> stamp]

\* PostCaptionsRead putting the new caption in front of the list
PostCaptionsReadUnshift(r) ==
  /\ hreq[r].pc = "parsed"
  /\ hreq[r].kind = "postCaption"
  /\ IF "captions" \in DOMAIN hreq[r].snap
     THEN LET newCaption == NewCaption(hreq[r].body, now)
              data == [hreq[r].snap EXCEPT !.captions = <<newCaption>> \o @]
          IN /\ dbData' = data
             /\ writer' = WriteCall(writer, r, data)
             /\ hreq' = [hreq EXCEPT ![r] =
                           [@ EXCEPT !.pc = "writing", !.note = newCaption,
                                     !.prev = hreq[r].snap.captions,
                                     !.snap = defaultData]]
     ELSE /\ dbData' = hreq[r].snap
          /\ writer' = writer
          /\ hreq' = [hreq EXCEPT ![r] = [@ EXCEPT !.pc = "threw",
                                                   !.snap = defaultData]]
  /\ UNCHANGED <<now, dbFile, outsideDb>>

\* db.read() resolves in a POST /api/captions: db.data is replaced, the
\* caption is pushed and db.write() is called; push on a document without
\* captions throws and the request is never answered
PostCaptionsRead(r) ==
  /\ hreq[r].pc = "parsed"
  /\ hreq[r].kind = "postCaption"
  /\ IF "captions" \in DOMAIN hreq[r].snap
     THEN LET newCaption == NewCaption(hreq[r].body, now)
              data == [hreq[r].snap EXCEPT !.captions = Append(@, newCaption)]
          IN /\ dbData' = data
             /\ writer' = WriteCall(writer, r, data)
             /\ hreq' = [hreq EXCEPT ![r] =
                           [@ EXCEPT !.pc = "writing", !.note = newCaption,
                                     !.prev = hreq[r].snap.captions,
                                     !.snap = defaultData]]
     ELSE /\ dbData' = hreq[r].snap
          /\ writer' = writer
          /\ hreq' = [hreq EXCEPT ![r] = [@ EXCEPT !.pc = "threw",
                                                   !.snap = defaultData]]
  /\ UNCHANGED <<now, dbFile, outsideDb>>

\* db.read() resolves in a GET: res.json(db.data.captions); without captions
\* in the document the answer is a 200 with no body
GetCaptionsRead(r) ==
  /\ hreq[r].pc = "parsed"
  /\ hreq[r].kind = "getCaptions"
  /\ dbData' = hreq[r].snap
  /\ hreq' = [hreq EXCEPT ![r] =
                [@ EXCEPT !.pc = "done", !.snap = defaultData,
                          !.resp = [NoBody EXCEPT
                                      !.status = 200,
                                      !.list = IF "captions" \in DOMAIN hreq[r].snap
                                               THEN hreq[r].snap.captions
                                               ELSE <<>>]]]
  /\ UNCHANGED <<now, dbFile, writer, outsideDb>>

\* SettingsMerged with the spread the other way round: stored values win
SettingsMergedStoredWins(r) ==
  [hreq[r].snap EXCEPT !.settings = Merge(hreq[r].body, @)]

\* db.read() resolves in a POST /api/settings:
\* db.data.settings = { ...db.data.settings, ...settings }; db.write() is called
SettingsMerged(r) ==
  [hreq[r].snap EXCEPT !.settings = Merge(@, hreq[r].body)]

PostSettingsRead(r) ==
  /\ hreq[r].pc = "parsed"
  /\ hreq[r].kind = "postSettings"
  /\ dbData' = SettingsMerged(r)
  /\ writer' = WriteCall(writer, r, SettingsMerged(r))
  /\ hreq' = [hreq EXCEPT ![r] = [@ EXCEPT !.pc = "writing",
                                           !.prev = hreq[r].snap.settings,
                                           !.snap = defaultData]]
  /\ UNCHANGED <<now, dbFile, outsideDb>>

\* db.read() resolves in a GET: res.json(db.data.settings)
SettingsRead(r) ==
  [hreq EXCEPT ![r] =
     [@ EXCEPT !.pc = "done", !.snap = defaultData,
               !.resp = [NoBody EXCEPT !.status = 200,
                                       !.settings = hreq[r].snap.settings]]]

GetSettingsRead(r) ==
  /\ hreq[r].pc = "parsed"
  /\ hreq[r].kind = "getSettings"
  /\ dbData' = hreq[r].snap
  /\ hreq' = SettingsRead(r)
  /\ UNCHANGED <<now, dbFile, writer, outsideDb>>

\* what a handler sends once its db.write() has resolved: res.json(newNote),
\* res.json(newCaption), or res.json(db.data.settings) with db.data as it is
\* by then
Written(o) ==
  IF hreq[o].kind = "postSettings"
  THEN [NoBody EXCEPT !.status = 200, !.settings = dbData.settings]
  ELSE [NoBody EXCEPT !.status = 200, !.note = hreq[o].note]

\* the running file write lands; the calls it served resolve and their
\* handlers answer
WriteFinish ==
  /\ writer.locked
  /\ dbFile' = writer.data
  /\ LET resolved == writer.prev \cup (IF writer.hasNext THEN {} ELSE writer.starter)
     IN hreq' = [o \in DbReqs |->
                   IF o \in resolved
                   THEN [hreq[o] EXCEPT !.pc = "done", !.resp = Written(o)]
                   ELSE hreq[o]]
  /\ writer' = IF writer.hasNext
               THEN [writer EXCEPT !.data = writer.nextData, !.prev = writer.next,
                                   !.hasNext = FALSE, !.nextData = defaultData,
                                   !.next = {}]
               ELSE IdleWriter
  /\ UNCHANGED <<now, dbData, outsideDb>>

NextDb ==
  \/ \E r \in DbReqs : \E text \in NoteTexts(r) : PostNotes(r, text)
  \/ \E r \in DbReqs : GetNotes(r)
  \/ \E r \in DbReqs : \E body \in CaptionBodies(r) : PostCaptions(r, body)
  \/ \E r \in DbReqs : GetCaptions(r)
  \/ \E r \in DbReqs : \E body \in SettingsBodies : PostSettings(r, body)
  \/ \E r \in DbReqs : GetSettings(r)
  \/ \E r \in DbReqs : FileRead(r)
  \/ \E r \in DbReqs : PostNotesRead(r)
  \/ \E r \in DbReqs : GetNotesRead(r)
  \/ \E r \in DbReqs : PostCaptionsRead(r)
  \/ \E r \in DbReqs : GetCaptionsRead(r)
  \/ \E r \in DbReqs : PostSettingsRead(r)
  \/ \E r \in DbReqs : GetSettingsRead(r)
  \/ WriteFinish
  \/ Tick

----------------------------------------------------------------------------
(* Image analysis: inputs of the environment                               *)

\* originalname of an upload, as characters
NameJpg == <<"i", ".jpg">>
NameJpeg == <<"i", ".jpeg">>
NamePng == <<"i", ".png">>
NameBmp == <<"i", ".bmp">>

\* what the uploaded bytes really are; the client names every blob image.jpg
UploadFiles ==
  { [name |-> NameJpg, container |-> "jpeg"],
    [name |-> NameJpg, container |-> "other"],
    [name |-> NameJpeg, container |-> "jpeg"],
    [name |-> NamePng, container |-> "png"],
    [name |-> NameBmp, container |-> "other"] }

CloudTexts == {"A red bus at a stop."}

Predictions == { <<>>, <<"cat", "dog", "cat">> }

OcrTexts == { <<>>, <<" ", "\n">>, <<" ", "S", "\n", "T", "\n">> }

NoPath == <<>>

NoResp == [status |-> 0, source |-> "", description |-> "", error |-> ""]

IdleReq ==
  [ pc |-> "idle", hasFile |-> FALSE, path |-> NoPath, container |-> "",
    useGemini |-> FALSE, parts |-> <<>>, text |-> <<>>, resp |-> NoResp,
    cloudCalls |-> 0, cloudOk |-> FALSE, cloudText |-> "",
    localRuns |-> 0, detSeen |-> "", decodeErr |-> FALSE, ocrRuns |-> 0,
    unlinks |-> 0, unlinkOk |-> FALSE, unhandled |-> FALSE ]

----------------------------------------------------------------------------
(* Image analysis: the handler of POST /api/analyze-image                  *)

\* multer.diskStorage filename: Date.now() + '-' + file.originalname
filename(t, originalname) == <<ToString(t), "-">> \o originalname

\* decodeImage: "throw" when readFileSync fails, "null" for an unknown suffix
\* or a decoder exception (the bytes are not what the suffix says), "tensor"
\* otherwise
decodeImage(imagePath, files) ==
  IF imagePath \notin DOMAIN files THEN "throw"
  ELSE LET buffer == files[imagePath]
       IN IF EndsWith(imagePath, <<".jpg">>) \/ EndsWith(imagePath, <<".jpeg">>)
          THEN IF buffer = "jpeg" THEN "tensor" ELSE "null"
          ELSE IF EndsWith(imagePath, <<".png">>)
          THEN IF buffer = "png" THEN "tensor" ELSE "null"
          ELSE "null"

\* the catch inside decodeImage fired: jpeg.decode or PNG.sync.read threw
DecoderThrows(imagePath, files) ==
  /\ imagePath \in DOMAIN files
  /\ \/ /\ EndsWith(imagePath, <<".jpg">>) \/ EndsWith(imagePath, <<".jpeg">>)
        /\ files[imagePath] # "jpeg"
     \/ /\ ~(EndsWith(imagePath, <<".jpg">>) \/ EndsWith(imagePath, <<".jpeg">>))
        /\ EndsWith(imagePath, <<".png">>)
        /\ files[imagePath] # "png"

NotReadyFragment == "Object detection model not ready."
FormatFragment == "Could not process image format for object detection."
NoObjectsFragment == "No specific objects detected."
NoTextFragment == "No text found."

ObjectsFragment(predictions) ==
  "This image contains: " \o Join(Distinct(predictions), ", ") \o "."

TextFragment(text) ==
  "Text found in image: \"" \o Join(ReplaceNewlines(Trim(text)), "") \o "\"."

OcrFragment(text) ==
  IF text # <<>> /\ Len(Trim(text)) > 0 THEN TextFragment(text) ELSE NoTextFragment

\* catch (error) of the handler: res.status(500).json throws once headers are sent
OuterCatch(q) ==
  IF q.resp # NoResp
  THEN [q EXCEPT !.pc = "done", !.unhandled = TRUE]
  ELSE [q EXCEPT !.pc = "done",
                 !.resp = [NoResp EXCEPT !.status = 500,
                                         !.error = "Failed to analyze image"]]

\* Option B up to its first await: B1 until detect() is called, else on to createWorker
LocalStart(q, files) ==
  LET q0 == [q EXCEPT !.localRuns = @ + 1, !.parts = <<>>,
                      !.detSeen = objectDetectionModel]
  IN IF objectDetectionModel = "loaded"
     THEN LET tfImage == decodeImage(q.path, files)
          IN IF tfImage = "throw"
             THEN [q0 EXCEPT !.pc = "worker", !.ocrRuns = @ + 1, !.decodeErr = TRUE]
             ELSE IF tfImage = "tensor" THEN [q0 EXCEPT !.pc = "detect"]
             ELSE [q0 EXCEPT !.parts = <<FormatFragment>>, !.pc = "worker",
                             !.ocrRuns = @ + 1,
                             !.decodeErr = DecoderThrows(q.path, files)]
     ELSE [q0 EXCEPT !.parts = <<NotReadyFragment>>, !.pc = "worker",
                     !.ocrRuns = @ + 1]

\* the upload middleware stores the file, then the handler runs to its first await
Upload(r, file, wantGemini) ==
  /\ req[r].pc = "idle"
  /\ LET imagePath == filename(now, file.name)
         files == (imagePath :> file.container) @@ uploads
         q == [req[r] EXCEPT !.hasFile = TRUE, !.path = imagePath,
                             !.container = file.container,
                             !.useGemini = wantGemini]
     IN /\ uploads' = files
        /\ req' = [req EXCEPT ![r] =
                     IF wantGemini /\ model
                     THEN [q EXCEPT !.pc = "cloud", !.cloudCalls = @ + 1]
                     ELSE LocalStart(q, files)]
  /\ UNCHANGED <<now, objectDetectionModel, model, outsideImage>>

UploadNothing(r) ==
  /\ req[r].pc = "idle"
  /\ req' = [req EXCEPT ![r] =
               [@ EXCEPT !.pc = "done",
                         !.resp = [NoResp EXCEPT !.status = 400,
                                                 !.error = "No image uploaded"]]]
  /\ UNCHANGED <<now, objectDetectionModel, model, uploads, outsideImage>>

\* model.generateContent resolved and response.text() returned
CloudSucceeds(r, text) ==
  /\ req[r].pc = "cloud"
  /\ LET q == [req[r] EXCEPT !.cloudOk = TRUE, !.cloudText = text,
                             !.resp = [NoResp EXCEPT !.status = 200,
                                                     !.description = text,
                                                     !.source = "gemini"],
                             !.unlinks = @ + 1]
     IN IF q.path \in DOMAIN uploads
        THEN /\ uploads' = [p \in DOMAIN uploads \ {q.path} |-> uploads[p]]
             /\ req' = [req EXCEPT ![r] = [q EXCEPT !.pc = "done", !.unlinkOk = TRUE]]
        ELSE \* unlinkSync throws inside the Gemini try: caught as geminiError
             /\ uploads' = uploads
             /\ req' = [req EXCEPT ![r] = LocalStart(q, uploads)]
  /\ UNCHANGED <<now, objectDetectionModel, model, outsideImage>>

\* the cloud call (or reading the file for it) threw
CloudFails(r) ==
  /\ req[r].pc = "cloud"
  /\ req' = [req EXCEPT ![r] = LocalStart(@, uploads)]
  /\ UNCHANGED <<now, objectDetectionModel, model, uploads, outsideImage>>

DetectReturns(r, predictions) ==
  /\ req[r].pc = "detect"
  /\ req' = [req EXCEPT ![r] =
               [@ EXCEPT !.parts = Append(@, IF Len(predictions) > 0
                                            THEN ObjectsFragment(predictions)
                                            ELSE NoObjectsFragment),
                         !.pc = "worker", !.ocrRuns = @ + 1]]
  /\ UNCHANGED <<now, objectDetectionModel, model, uploads, outsideImage>>

\* detect() rejected: caught and logged, nothing is pushed
DetectThrows(r) ==
  /\ req[r].pc = "detect"
  /\ req' = [req EXCEPT ![r] = [@ EXCEPT !.pc = "worker", !.ocrRuns = @ + 1]]
  /\ UNCHANGED <<now, objectDetectionModel, model, uploads, outsideImage>>

WorkerCreated(r) ==
  /\ req[r].pc = "worker"
  /\ req' = [req EXCEPT ![r] = [@ EXCEPT !.pc = "recognize"]]
  /\ UNCHANGED <<now, objectDetectionModel, model, uploads, outsideImage>>

\* createWorker, recognize or terminate rejected: the outer catch answers
OcrThrows(r) ==
  /\ req[r].pc \in {"worker", "recognize", "terminate"}
  /\ req' = [req EXCEPT ![r] = OuterCatch(@)]
  /\ UNCHANGED <<now, objectDetectionModel, model, uploads, outsideImage>>

\* worker.recognize(imagePath) needs the file to be there
Recognized(r, text) ==
  /\ req[r].pc = "recognize"
  /\ req[r].path \in DOMAIN uploads
  /\ req' = [req EXCEPT ![r] = [@ EXCEPT !.pc = "terminate", !.text = text]]
  /\ UNCHANGED <<now, objectDetectionModel, model, uploads, outsideImage>>

\* Terminated without the cleanup: the uploaded file is left behind
TerminatedNoCleanup(r) ==
  /\ req[r].pc = "terminate"
  /\ LET q == [req[r] EXCEPT !.parts = Append(@, OcrFragment(req[r].text)),
                             !.text = <<>>]
     IN req' = [req EXCEPT ![r] =
                  IF q.resp # NoResp THEN OuterCatch(q)
                  ELSE [q EXCEPT !.pc = "done",
                                 !.resp = [NoResp EXCEPT !.status = 200,
                                              !.description = Join(q.parts, " "),
                                              !.source = "local"]]]
  /\ UNCHANGED <<now, objectDetectionModel, model, uploads, outsideImage>>

\* Terminated with the local answer tagged like the cloud one
TerminatedTaggedGemini(r) ==
  /\ req[r].pc = "terminate"
  /\ LET q == [req[r] EXCEPT !.parts = Append(@, OcrFragment(req[r].text)),
                             !.text = <<>>]
     IN IF q.resp # NoResp
        THEN /\ req' = [req EXCEPT ![r] = OuterCatch(q)]
             /\ uploads' = uploads
        ELSE LET q1 == [q EXCEPT !.resp = [NoResp EXCEPT !.status = 200,
                                              !.description = Join(q.parts, " "),
                                              !.source = "gemini"],
                                 !.unlinks = @ + 1]
             IN IF q1.path \in DOMAIN uploads
                THEN /\ uploads' = [p \in DOMAIN uploads \ {q1.path} |-> uploads[p]]
                     /\ req' = [req EXCEPT ![r] =
                                  [q1 EXCEPT !.pc = "done", !.unlinkOk = TRUE]]
                ELSE /\ uploads' = uploads
                     /\ req' = [req EXCEPT ![r] = OuterCatch(q1)]
  /\ UNCHANGED <<now, objectDetectionModel, model, outsideImage>>

\* worker.terminate() resolved: B2's fragment, the response and the cleanup
Terminated(r) ==
  /\ req[r].pc = "terminate"
  /\ LET q == [req[r] EXCEPT !.parts = Append(@, OcrFragment(req[r].text)),
                             !.text = <<>>]
         fullDescription == Join(q.parts, " ")
     IN IF q.resp # NoResp
        THEN \* res.json after the headers were sent throws
             /\ req' = [req EXCEPT ![r] = OuterCatch(q)]
             /\ uploads' = uploads
        ELSE LET q1 == [q EXCEPT !.resp = [NoResp EXCEPT !.status = 200,
                                              !.description = fullDescription,
                                              !.source = "local"],
                                 !.unlinks = @ + 1]
             IN IF q1.path \in DOMAIN uploads
                THEN /\ uploads' = [p \in DOMAIN uploads \ {q1.path} |-> uploads[p]]
                     /\ req' = [req EXCEPT ![r] =
                                  [q1 EXCEPT !.pc = "done", !.unlinkOk = TRUE]]
                ELSE /\ uploads' = uploads
                     /\ req' = [req EXCEPT ![r] = OuterCatch(q1)]
  /\ UNCHANGED <<now, objectDetectionModel, model, outsideImage>>

\* the startup IIFE: cocoSsd.load() resolves, or rejects and is only logged
ModelLoaded ==
  /\ objectDetectionModel = "loading"
  /\ objectDetectionModel' = "loaded"
  /\ UNCHANGED <<now, model, uploads, req, outsideImage>>

ModelLoadFailed ==
  /\ objectDetectionModel = "loading"
  /\ objectDetectionModel' = "undefined"
  /\ UNCHANGED <<now, model, uploads, req, outsideImage>>

ImageIdle ==
  /\ objectDetectionModel = "loading"
  /\ model = FALSE
  /\ uploads = <<>>
  /\ req = [r \in Reqs |-> IdleReq]

----------------------------------------------------------------------------
(* Client: the ImageRecognition page                                       *)

Null == "null"

Images == {"data:1", "data:2"}
MagicImage == "https://picsum.photos/800/600"

\* two of the mockDescriptions
mockDescriptions ==
  { "A detailed diagram showing the water cycle.",
    "A mathematical graph displaying a parabola." }

\* what POST /api/analyze-image answers with when apiResponse.ok
ServerAnswers ==
  { [source |-> "gemini", description |-> "A red bus at a stop."],
    [source |-> "local", description |-> "No specific objects detected. No text found."] }

NoReader == [busy |-> FALSE, imageUrl |-> Null, closure |-> <<>>]

\* what the functions created by the current render see
Closure ==
  [ selectedImage |-> selectedImage,
    demoMode |-> ("demoMode" \in DOMAIN settings /\ settings.demoMode),
    useGemini |-> useGemini ]

IdleRun ==
  [ pc |-> "unused", closure |-> <<>>, demoOn |-> FALSE, outcome |-> "",
    shown |-> "" ]

\* speechRate counts steps of 0.25: useState(1), Math.min(.., 2),
\* Math.max(.., 0.5)
NormalRate == 4
FastestRate == 8
SlowestRate == 2

\* a SpeechRecognition object not yet created; isListening is that of the
\* render whose handler creates it
IdleSession == [state |-> "unused", isListening |-> FALSE, transcript |-> <<>>]

\* window.speechSynthesis with nothing queued
NoSynth == [queued |-> FALSE, paused |-> FALSE]

\* the speech pages at rest, for the specifications that leave them alone
SpeechIdle ==
  /\ page = "home"
  /\ isListening = FALSE
  /\ recognitionRef = 0
  /\ sessions = [s \in Sessions |-> IdleSession]
  /\ captions = <<>>
  /\ currentCaption = ""
  /\ captionsFetch = "none"
  /\ saved = <<>>
  /\ notes = <<>>
  /\ isPlaying = FALSE
  /\ speechRate = NormalRate
  /\ synth = NoSynth

\* the provider at rest, for the specifications that leave it alone
ProviderIdle ==
  /\ queue = <<>>
  /\ localStorage = <<>>
  /\ document = [root |-> {}, body |-> {}, fontSize |-> 0]
  /\ posts = <<>>
  /\ mounted = [local |-> <<>>, server |-> <<>>, touched |-> FALSE]

UiIdle ==
  /\ settings = [demoMode |-> FALSE]
  /\ mountFetch = "done"
  /\ ProviderIdle
  /\ SpeechIdle
  /\ selectedImage = Null
  /\ description = ""
  /\ isAnalyzing = FALSE
  /\ useGemini = TRUE
  /\ reader = NoReader
  /\ run = [i \in Runs |-> IdleRun]

FreeRun(i) == run[i].pc = "unused" /\ \A j \in Runs : j < i => run[j].pc # "unused"

\* analyzeImage() as created by the render that `closure` belongs to, called
\* as run i; `image` is selectedImage after the caller's own setSelectedImage
analyzeImage(i, closure, image) ==
  IF closure.selectedImage = Null
  THEN \* if (!selectedImage) return;
       /\ run' = [run EXCEPT ![i] = [@ EXCEPT !.pc = "done", !.closure = closure,
                                              !.demoOn = settings.demoMode,
                                              !.outcome = "none"]]
       /\ selectedImage' = image
       /\ UNCHANGED <<description, isAnalyzing>>
  ELSE /\ isAnalyzing' = TRUE
       /\ description' = ""
       /\ selectedImage' = image
       /\ run' = [run EXCEPT ![i] =
                    [@ EXCEPT !.pc = IF closure.demoMode THEN "demoDelay" ELSE "fetching",
                              !.closure = closure,
                              !.demoOn = settings.demoMode]]

\* handleFileUpload: reader.readAsDataURL(file)
handleFileUpload(file) ==
  /\ ~reader.busy
  /\ reader' = [busy |-> TRUE, imageUrl |-> file, closure |-> Closure]
  /\ UNCHANGED <<settings, mountFetch, selectedImage, description, isAnalyzing,
                 useGemini, run, outsideUi>>

\* reader.onload: setSelectedImage(imageUrl); analyzeImage()
ReaderOnload(i) ==
  /\ reader.busy
  /\ FreeRun(i)
  /\ analyzeImage(i, reader.closure, reader.imageUrl)
  /\ reader' = NoReader
  /\ UNCHANGED <<settings, mountFetch, useGemini, outsideUi>>

\* the Magic Demo Image button, rendered while settings.demoMode
MagicDemoClick(i) ==
  /\ settings.demoMode
  /\ FreeRun(i)
  /\ selectedImage' = MagicImage
  /\ run' = [run EXCEPT ![i] = [@ EXCEPT !.pc = "magicDelay", !.closure = Closure]]
  /\ UNCHANGED <<settings, mountFetch, description, isAnalyzing, useGemini, reader,
                 outsideUi>>

\* setTimeout(() => analyzeImage(), 500) of the button fires
MagicDelayFires(i) ==
  /\ run[i].pc = "magicDelay"
  /\ analyzeImage(i, run[i].closure, selectedImage)
  /\ UNCHANGED <<settings, mountFetch, useGemini, reader, outsideUi>>

\* the 1500 ms timer of the demo interception fires
DemoDelayFires(i, randomDesc) ==
  /\ run[i].pc = "demoDelay"
  /\ LET text == "[DEMO ANALYSIS]: " \o randomDesc \o " (Perfect confidence score: 99.9%)"
     IN /\ description' = text
        /\ run' = [run EXCEPT ![i] = [@ EXCEPT !.pc = "done", !.outcome = "demo",
                                               !.shown = text]]
  /\ isAnalyzing' = FALSE
  /\ UNCHANGED <<settings, mountFetch, selectedImage, useGemini, reader, outsideUi>>

\* the POST /api/analyze-image of a run came back with apiResponse.ok
AnalysisAnswered(i, data) ==
  /\ run[i].pc = "fetching"
  /\ LET source == IF data.source = "gemini"
                   THEN "Analysis by Google Gemini"
                   ELSE "Analysis by TensorFlow.js (Local)"
         text == source \o "\n\n" \o data.description
     IN /\ description' = text
        /\ run' = [run EXCEPT ![i] = [@ EXCEPT !.pc = "done", !.outcome = "server",
                                               !.shown = text]]
  /\ isAnalyzing' = IF ~run[i].closure.demoMode THEN FALSE ELSE isAnalyzing
  /\ UNCHANGED <<settings, mountFetch, selectedImage, useGemini, reader, outsideUi>>

\* a fetch of the run threw, or the answer was not ok
AnalysisFailed(i) ==
  /\ run[i].pc = "fetching"
  /\ LET text == "Sorry, I couldn't analyze this image. Please try again."
     IN /\ description' = text
        /\ run' = [run EXCEPT ![i] = [@ EXCEPT !.pc = "done", !.outcome = "error",
                                               !.shown = text]]
  /\ isAnalyzing' = IF ~run[i].closure.demoMode THEN FALSE ELSE isAnalyzing
  /\ UNCHANGED <<settings, mountFetch, selectedImage, useGemini, reader, outsideUi>>

\* the Clear Image button, rendered while an image is selected
ClearImage ==
  /\ selectedImage # Null
  /\ selectedImage' = Null
  /\ description' = ""
  /\ UNCHANGED <<settings, mountFetch, isAnalyzing, useGemini, reader, run, outsideUi>>

\* the Gemini checkbox
ToggleGemini ==
  /\ useGemini' = ~useGemini
  /\ UNCHANGED <<settings, mountFetch, selectedImage, description, isAnalyzing,
                 reader, run, outsideUi>>

\* the provider's GET /api/settings answers: setSettings(prev => ({...prev, ...data}))
MountFetchMerged(data) ==
  /\ mountFetch = "pending"
  /\ mountFetch' = "done"
  /\ settings' = [demoMode |-> IF "demoMode" \in DOMAIN data
                               THEN data.demoMode ELSE settings.demoMode]
  /\ UNCHANGED <<selectedImage, description, isAnalyzing, useGemini, reader, run,
                 outsideUi>>

ServerSettings == { [demoMode |-> TRUE], [demoMode |-> FALSE] }

InitUi ==
  /\ now = 0
  /\ ImageIdle
  /\ DbIdle
  /\ settings \in [demoMode : BOOLEAN]
  /\ mountFetch = "pending"
  /\ ProviderIdle
  /\ SpeechIdle
  /\ selectedImage = Null
  /\ description = ""
  /\ isAnalyzing = FALSE
  /\ useGemini = TRUE
  /\ reader = NoReader
  /\ run = [i \in Runs |-> IdleRun]

NextUi ==
  \/ \E file \in Images : handleFileUpload(file)
  \/ \E i \in Runs : ReaderOnload(i)
  \/ \E i \in Runs : MagicDemoClick(i)
  \/ \E i \in Runs : MagicDelayFires(i)
  \/ \E i \in Runs, randomDesc \in mockDescriptions : DemoDelayFires(i, randomDesc)
  \/ \E i \in Runs, data \in ServerAnswers : AnalysisAnswered(i, data)
  \/ \E i \in Runs : AnalysisFailed(i)
  \/ ClearImage
  \/ ToggleGemini
  \/ \E data \in ServerSettings : MountFetchMerged(data)

SpecUi == InitUi /\ [][NextUi]_vars

----------------------------------------------------------------------------
(* Client: the AccessibilityProvider, its settings store and its mirror on *)
(* the server                                                              *)

\* defaultSettings: the keys the provider's effect reads
defaultSettings ==
  [fontSize |-> 16, contrastMode |-> "light", dyslexiaFont |-> FALSE]

ContrastModes == {"light", "dark", "high-contrast"}

\* localStorage 'accessibility-settings' when the page loads: nothing, or the
\* settings an earlier visit left
SavedItems ==
  { <<>>,
    << [fontSize |-> 16, contrastMode |-> "high-contrast", dyslexiaFont |-> TRUE] >> }

\* saved ? JSON.parse(saved) : defaultSettings
Loaded(item) == IF item = <<>> THEN defaultSettings ELSE item[1]

\* what the pages pass to updateSettings: a contrast button of the settings
\* panel, the 'dyslexia' persona of the onboarding, and its Enable Demo Mode
\* button
Updates ==
  { [contrastMode |-> "dark"],
    [fontSize |-> 18, contrastMode |-> "light", dyslexiaFont |-> TRUE,
     demoMode |-> FALSE, activePersona |-> "dyslexia"],
    [demoMode |-> TRUE] }

\* ReduceQueue keeping only the updater queued last
ReduceLast(prev, q) ==
  IF q = <<>> THEN prev ELSE Merge(prev, q[Len(q)])

\* React runs the queued updaters prev => ({ ...prev, ...updates }) in the
\* order of the calls, each on the result of the one before
RECURSIVE ReduceQueue(_, _)
ReduceQueue(prev, q) ==
  IF q = <<>> THEN prev ELSE ReduceQueue(Merge(prev, Head(q)), Tail(q))

\* ApplyToDocument without classList.remove
ApplyToDocumentNoRemove(doc, s) ==
  [ root |-> doc.root \cup {s.contrastMode},
    body |-> IF s.dyslexiaFont THEN doc.body \cup {"dyslexia-font"}
             ELSE doc.body \ {"dyslexia-font"},
    fontSize |-> s.fontSize ]

\* setProperty('--font-size'), classList.remove of the three modes and add of
\* contrastMode on <html>, dyslexia-font added to or removed from <body>
ApplyToDocument(doc, s) ==
  [ root |-> (doc.root \ ContrastModes) \cup {s.contrastMode},
    body |-> IF s.dyslexiaFont THEN doc.body \cup {"dyslexia-font"}
             ELSE doc.body \ {"dyslexia-font"},
    fontSize |-> s.fontSize ]

\* useEffect(..., [settings]) run for settings s
SettingsEffect(s) ==
  /\ localStorage' = <<s>>
  /\ posts' = Append(posts, [body |-> s, at |-> "sent"])
  /\ document' = ApplyToDocument(document, s)

\* first render committed: the mount effect fires GET /api/settings and the
\* settings effect runs
Mount ==
  /\ mountFetch = "unmounted"
  /\ mountFetch' = "pending"
  /\ SettingsEffect(settings)
  /\ mounted' = [local |-> settings, server |-> dbFile.settings, touched |-> FALSE]
  /\ UNCHANGED <<settings, queue, pageVars, now, imageVars, dbVars>>

\* updateSettings(updates): setSettings(prev => ({ ...prev, ...updates }))
updateSettings(updates) ==
  /\ mountFetch # "unmounted"
  /\ Len(posts) + Len(queue)
       + (IF mountFetch \in {"pending", "asked"} THEN 1 ELSE 0) < MaxPosts
  /\ queue' = Append(queue, updates)
  /\ mounted' = [mounted EXCEPT !.touched = TRUE]
  /\ UNCHANGED <<settings, mountFetch, localStorage, document, posts, pageVars,
                 now, imageVars, dbVars>>

\* React renders with the queued updates applied, then the settings effect
\* runs for the new settings
Render ==
  /\ queue # <<>>
  /\ settings' = ReduceQueue(settings, queue)
  /\ queue' = <<>>
  /\ SettingsEffect(settings')
  /\ UNCHANGED <<mountFetch, mounted, pageVars, now, imageVars, dbVars>>

\* the GET of the mount effect reaches the server
MountGetArrives(r) ==
  /\ mountFetch = "pending"
  /\ NextRequest(r)
  /\ mountFetch' = "asked"
  /\ hreq' = SettingsAsked(r)
  /\ UNCHANGED <<settings, providerVars, pageVars, now, imageVars, dbFile, dbData,
                 writer>>

\* the GET of the mount effect fails: .catch logs 'Using local settings only'
MountGetFails ==
  /\ mountFetch = "pending"
  /\ mountFetch' = "failed"
  /\ UNCHANGED <<settings, providerVars, pageVars, now, imageVars, dbVars>>

\* .then(data => { if (Object.keys(data).length > 0)
\*                   setSettings(prev => ({ ...prev, ...data })) })
MountGetAnswered(r) ==
  /\ mountFetch = "asked"
  /\ hreq[r].kind = "getSettings"
  /\ hreq[r].pc = "done"
  /\ mountFetch' = "done"
  /\ LET data == hreq[r].resp.settings
     IN queue' = IF DOMAIN data # {} THEN Append(queue, data) ELSE queue
  /\ UNCHANGED <<settings, localStorage, document, posts, mounted, pageVars, now,
                 imageVars, dbVars>>

\* the i-th POST fired by the settings effect reaches the server, whatever
\* became of the ones fired before it
PostArrives(i, r) ==
  /\ i <= Len(posts)
  /\ posts[i].at = "sent"
  /\ NextRequest(r)
  /\ posts' = [posts EXCEPT ![i].at = "arrived"]
  /\ hreq' = SettingsPosted(r, posts[i].body, i)
  /\ UNCHANGED <<settings, mountFetch, queue, localStorage, document, mounted,
                 pageVars, now, imageVars, dbFile, dbData, writer>>

\* the page is about to load; the server is listening
InitSettings ==
  /\ now = 0
  /\ ImageIdle
  /\ \E file \in BootFiles : dbFile = Startup(file) /\ dbData = Startup(file)
  /\ writer = IdleWriter
  /\ hreq = [r \in DbReqs |-> IdleDbReq]
  /\ localStorage \in SavedItems
  /\ settings = Loaded(localStorage)
  /\ mountFetch = "unmounted"
  /\ queue = <<>>
  /\ posts = <<>>
  /\ document = [root |-> {}, body |-> {}, fontSize |-> 0]
  /\ mounted = [local |-> <<>>, server |-> <<>>, touched |-> FALSE]
  /\ SpeechIdle
  /\ selectedImage = Null
  /\ description = ""
  /\ isAnalyzing = FALSE
  /\ useGemini = TRUE
  /\ reader = NoReader
  /\ run = [i \in Runs |-> IdleRun]

NextSettings ==
  \/ Mount
  \/ \E updates \in Updates : updateSettings(updates)
  \/ Render
  \/ \E r \in DbReqs : MountGetArrives(r)
  \/ MountGetFails
  \/ \E r \in DbReqs : MountGetAnswered(r)
  \/ \E i \in 1..MaxPosts, r \in DbReqs : PostArrives(i, r)
  \/ \E r \in DbReqs : FileRead(r)
  \/ \E r \in DbReqs : PostSettingsRead(r)
  \/ \E r \in DbReqs : GetSettingsRead(r)
  \/ WriteFinish

SpecSettings == InitSettings /\ [][NextSettings]_vars

----------------------------------------------------------------------------
(* Client: the speech pages LiveCaptioning, SpeechNotes and ReaderInterface *)

\* what the recogniser makes of the speech on the dictation pages
Phrases == {"hello", "good morning"}

\* what GET /api/captions answers with when it answers with a list
StoredCaptionLists ==
  { <<>>, << [id |-> "1", text |-> "earlier", timestamp |-> "09:00"] >> }

\* what the Reader's recogniser hears, as characters
Heard ==
  { <<"P", "l", "a", "y">>,
    <<"s", "t", "a", "r", "t">>,
    <<"p", "a", "u", "s", "e">>,
    <<"s", "t", "o", "p", " ", "p", "l", "a", "y", "i", "n", "g">>,
    <<"f", "a", "s", "t", "e", "r">>,
    <<"s", "l", "o", "w", "e", "r", " ", "n", "o", "t", " ", "f", "a", "s", "t", "e", "r">>,
    <<"s", "l", "o", "w", "e", "r">>,
    <<"h", "e", "l", "l", "o">> }

Uppercase ==
  << "A", "B", "C", "D", "E", "F", "G", "H", "I", "J", "K", "L", "M",
     "N", "O", "P", "Q", "R", "S", "T", "U", "V", "W", "X", "Y", "Z" >>
Lowercase ==
  << "a", "b", "c", "d", "e", "f", "g", "h", "i", "j", "k", "l", "m",
     "n", "o", "p", "q", "r", "s", "t", "u", "v", "w", "x", "y", "z" >>

\* String.prototype.toLowerCase
ToLowerCase(t) ==
  [i \in 1..Len(t) |->
     IF \E j \in 1..Len(Uppercase) : Uppercase[j] = t[i]
     THEN Lowercase[CHOOSE j \in 1..Len(Uppercase) : Uppercase[j] = t[i]]
     ELSE t[i]]

\* String.prototype.includes
Includes(t, w) ==
  \E i \in 1..(Len(t) - Len(w) + 1) : SubSeq(t, i, i + Len(w) - 1) = w

KwPlay == <<"p", "l", "a", "y">>
KwStart == <<"s", "t", "a", "r", "t">>
KwPause == <<"p", "a", "u", "s", "e">>
KwStop == <<"s", "t", "o", "p">>
KwFaster == <<"f", "a", "s", "t", "e", "r">>
KwSlower == <<"s", "l", "o", "w", "e", "r">>

\* the next SpeechRecognition object to be created is s
FreeSession(s) ==
  /\ sessions[s].state = "unused"
  /\ \A o \in Sessions : o < s => sessions[o].state # "unused"

\* new SpeechRecognition() with its handlers, then recognition.start(); the
\* handlers see the state of the render that created them
Created == [IdleSession EXCEPT !.state = "starting", !.isListening = isListening]

\* LiveCaptioning.startCaptioning, behind the Start button shown while
\* !isListening: no earlier recognition is stopped or aborted
startCaptioning(s) ==
  /\ page = "captions"
  /\ ~isListening
  /\ FreeSession(s)
  /\ sessions' = [sessions EXCEPT ![s] = Created]
  /\ recognitionRef' = s
  /\ UNCHANGED <<page, isListening, captions, currentCaption, captionsFetch, saved,
                 notes, isPlaying, speechRate, synth, outsideSpeech>>

\* SpeechNotes.startListening, behind the Start button shown while !isListening
startListening(s) ==
  /\ page = "notes"
  /\ ~isListening
  /\ FreeSession(s)
  /\ sessions' = [sessions EXCEPT ![s] = Created]
  /\ recognitionRef' = s
  /\ UNCHANGED <<page, isListening, captions, currentCaption, captionsFetch, saved,
                 notes, isPlaying, speechRate, synth, outsideSpeech>>

\* ReaderInterface.startVoiceInput, behind the Voice Control button, which
\* stays enabled while listening; the recognition is kept in no ref
startVoiceInput(s) ==
  /\ page = "reader"
  /\ FreeSession(s)
  /\ sessions' = [sessions EXCEPT ![s] = Created]
  /\ UNCHANGED <<page, isListening, recognitionRef, captions, currentCaption,
                 captionsFetch, saved, notes, isPlaying, speechRate, synth,
                 outsideSpeech>>

\* recognition.onstart of any of the three pages: setIsListening(true). What a
\* browser does with a session started while another one is running is not
\* laid down: it may start it as well, or end either with onerror
onstart(s) ==
  /\ sessions[s].state = "starting"
  /\ sessions' = [sessions EXCEPT ![s].state = "active"]
  /\ isListening' = TRUE
  /\ UNCHANGED <<page, recognitionRef, captions, currentCaption, captionsFetch,
                 saved, notes, isPlaying, speechRate, synth, outsideSpeech>>

\* recognition.onerror of any of the three pages: setIsListening(false);
\* onend follows
onerror(s) ==
  /\ sessions[s].state \in {"starting", "active", "stopping"}
  /\ sessions' = [sessions EXCEPT ![s].state = "failed"]
  /\ isListening' = FALSE
  /\ UNCHANGED <<page, recognitionRef, captions, currentCaption, captionsFetch,
                 saved, notes, isPlaying, speechRate, synth, outsideSpeech>>

\* a SpeechRecognition object that has ended and is referred to no more
Ended == [IdleSession EXCEPT !.state = "ended"]

\* recognition.onend: the recogniser has stopped, after stop(), after an
\* error, or by itself. LiveCaptioning: if (isListening) recognition.start(),
\* with the isListening of the render that created the handler; the other
\* pages: setIsListening(false)
onend(s) ==
  /\ sessions[s].state \in {"active", "stopping", "failed"}
  /\ IF page = "captions"
     THEN /\ sessions' = [sessions EXCEPT ![s] =
                            IF sessions[s].isListening
                            THEN [@ EXCEPT !.state = "starting"]
                            ELSE Ended]
          /\ isListening' = isListening
     ELSE /\ sessions' = [sessions EXCEPT ![s] = Ended]
          /\ isListening' = FALSE
  /\ UNCHANGED <<page, recognitionRef, captions, currentCaption, captionsFetch,
                 saved, notes, isPlaying, speechRate, synth, outsideSpeech>>

\* recognitionRef.current.stop(), if the ref holds a recognition
Stopped ==
  IF recognitionRef # 0 /\ sessions[recognitionRef].state \in {"starting", "active"}
  THEN [sessions EXCEPT ![recognitionRef].state = "stopping"]
  ELSE sessions

\* LiveCaptioning.stopCaptioning and SpeechNotes.stopListening, behind the
\* Stop button shown while isListening
stopCaptioning ==
  /\ page \in {"captions", "notes"}
  /\ isListening
  /\ isListening' = FALSE
  /\ sessions' = Stopped
  /\ UNCHANGED <<page, recognitionRef, captions, currentCaption, captionsFetch,
                 saved, notes, isPlaying, speechRate, synth, outsideSpeech>>

\* the caption LiveCaptioning keeps and posts: { text, timestamp }
LocalCaption(text) == [text |-> text, timestamp |-> "09:30"]

\* LiveCaptioning's recognition.onresult with a final transcript:
\* setCaptions(prev => [...prev, { text, timestamp }]); saveCaption(text);
\* setCurrentCaption('')
captionFinal(s, text) ==
  /\ page = "captions"
  /\ sessions[s].state \in {"active", "stopping"}
  /\ Len(saved) < MaxFinals
  /\ captions' = Append(captions, LocalCaption(text))
  /\ saved' = Append(saved, LocalCaption(text))
  /\ currentCaption' = ""
  /\ UNCHANGED <<page, isListening, recognitionRef, sessions, captionsFetch, notes,
                 isPlaying, speechRate, synth, outsideSpeech>>

\* the same with interim results only: setCurrentCaption(interimTranscript)
captionInterim(s, text) ==
  /\ page = "captions"
  /\ sessions[s].state = "active"
  /\ currentCaption' = text
  /\ UNCHANGED <<page, isListening, recognitionRef, sessions, captions,
                 captionsFetch, saved, notes, isPlaying, speechRate, synth,
                 outsideSpeech>>

\* the Clear button of LiveCaptioning, enabled while there are captions
clearCaptions ==
  /\ page = "captions"
  /\ captions # <<>>
  /\ captions' = <<>>
  /\ currentCaption' = ""
  /\ UNCHANGED <<page, isListening, recognitionRef, sessions, captionsFetch, saved,
                 notes, isPlaying, speechRate, synth, outsideSpeech>>

\* the GET /api/captions of LiveCaptioning's mount effect answers with a list:
\* if (Array.isArray(data)) setCaptions(data)
captionsLoaded(data) ==
  /\ captionsFetch = "pending"
  /\ captionsFetch' = "done"
  /\ captions' = data
  /\ UNCHANGED <<page, isListening, recognitionRef, sessions, currentCaption, saved,
                 notes, isPlaying, speechRate, synth, outsideSpeech>>

\* the GET fails, or its answer is no JSON list: .catch logs, nothing is set
captionsLoadFailed ==
  /\ captionsFetch = "pending"
  /\ captionsFetch' = "failed"
  /\ UNCHANGED <<page, isListening, recognitionRef, sessions, captions,
                 currentCaption, saved, notes, isPlaying, speechRate, synth,
                 outsideSpeech>>

\* SpeechNotes' recognition.onresult with a final transcript:
\* setNotes(prev => prev + transcript + ' '); notes holds the pieces appended
notesFinal(s, text) ==
  /\ page = "notes"
  /\ sessions[s].state \in {"active", "stopping"}
  /\ Len(notes) < MaxFinals
  /\ notes' = Append(notes, text \o " ")
  /\ UNCHANGED <<page, isListening, recognitionRef, sessions, captions,
                 currentCaption, captionsFetch, saved, isPlaying, speechRate, synth,
                 outsideSpeech>>

\* ReaderInterface.startSpeech: speechSynthesis.cancel(); speak(utterance);
\* setIsPlaying(true)
startSpeech ==
  /\ synth' = [queued |-> TRUE, paused |-> synth.paused]
  /\ isPlaying' = TRUE

\* ReaderInterface.pauseSpeech: speechSynthesis.pause(); setIsPlaying(false)
pauseSpeech ==
  /\ synth' = [synth EXCEPT !.paused = TRUE]
  /\ isPlaying' = FALSE

\* ReaderInterface.resumeSpeech: speechSynthesis.resume(); setIsPlaying(true)
resumeSpeech ==
  /\ synth' = [synth EXCEPT !.paused = FALSE]
  /\ isPlaying' = TRUE

\* the Play/Pause button of the Reader
handlePlayPause ==
  /\ page = "reader"
  /\ IF isPlaying THEN pauseSpeech
     ELSE IF synth.paused THEN resumeSpeech
     ELSE startSpeech
  /\ UNCHANGED <<page, isListening, recognitionRef, sessions, captions,
                 currentCaption, captionsFetch, saved, notes, speechRate,
                 outsideSpeech>>

\* utterance.onend: the text has been read to its end: setIsPlaying(false)
utteranceEnds ==
  /\ page = "reader"
  /\ synth.queued /\ ~synth.paused
  /\ synth' = [synth EXCEPT !.queued = FALSE]
  /\ isPlaying' = FALSE
  /\ UNCHANGED <<page, isListening, recognitionRef, sessions, captions,
                 currentCaption, captionsFetch, saved, notes, speechRate,
                 outsideSpeech>>

Min(a, b) == IF a < b THEN a ELSE b
Max(a, b) == IF a > b THEN a ELSE b

\* readerResult testing pause/stop before play/start
readerResultPauseFirst(s, heard) ==
  /\ page = "reader"
  /\ sessions[s].state = "active"
  /\ sessions[s].transcript = <<>>
  /\ LET transcript == ToLowerCase(heard)
     IN /\ sessions' = [sessions EXCEPT ![s].transcript = transcript]
        /\ IF Includes(transcript, KwPause) \/ Includes(transcript, KwStop)
           THEN pauseSpeech /\ speechRate' = speechRate
           ELSE IF Includes(transcript, KwPlay) \/ Includes(transcript, KwStart)
           THEN startSpeech /\ speechRate' = speechRate
           ELSE IF Includes(transcript, KwFaster)
           THEN /\ speechRate' = Min(speechRate + 1, FastestRate)
                /\ UNCHANGED <<isPlaying, synth>>
           ELSE IF Includes(transcript, KwSlower)
           THEN /\ speechRate' = Max(speechRate - 1, SlowestRate)
                /\ UNCHANGED <<isPlaying, synth>>
           ELSE UNCHANGED <<isPlaying, speechRate, synth>>
  /\ UNCHANGED <<page, isListening, recognitionRef, captions, currentCaption,
                 captionsFetch, saved, notes, outsideSpeech>>

\* the Reader's recognition.onresult (continuous = false: one result for a
\* session): the transcript in lower case is tested for the keywords in turn
readerResult(s, heard) ==
  /\ page = "reader"
  /\ sessions[s].state = "active"
  /\ sessions[s].transcript = <<>>
  /\ LET transcript == ToLowerCase(heard)
     IN /\ sessions' = [sessions EXCEPT ![s].transcript = transcript]
        /\ IF Includes(transcript, KwPlay) \/ Includes(transcript, KwStart)
           THEN startSpeech /\ speechRate' = speechRate
           ELSE IF Includes(transcript, KwPause) \/ Includes(transcript, KwStop)
           THEN pauseSpeech /\ speechRate' = speechRate
           ELSE IF Includes(transcript, KwFaster)
           THEN /\ speechRate' = Min(speechRate + 1, FastestRate)
                /\ UNCHANGED <<isPlaying, synth>>
           ELSE IF Includes(transcript, KwSlower)
           THEN /\ speechRate' = Max(speechRate - 1, SlowestRate)
                /\ UNCHANGED <<isPlaying, synth>>
           ELSE UNCHANGED <<isPlaying, speechRate, synth>>
  /\ UNCHANGED <<page, isListening, recognitionRef, captions, currentCaption,
                 captionsFetch, saved, notes, outsideSpeech>>

\* one of the three pages has just been opened
InitSpeech ==
  /\ now = 0
  /\ ImageIdle
  /\ DbIdle
  /\ settings = [demoMode |-> FALSE]
  /\ mountFetch = "done"
  /\ ProviderIdle
  /\ selectedImage = Null
  /\ description = ""
  /\ isAnalyzing = FALSE
  /\ useGemini = TRUE
  /\ reader = NoReader
  /\ run = [i \in Runs |-> IdleRun]
  /\ page \in {"captions", "notes", "reader"}
  /\ isListening = FALSE
  /\ recognitionRef = 0
  /\ sessions = [s \in Sessions |-> IdleSession]
  /\ captions = <<>>
  /\ currentCaption = ""
  /\ captionsFetch = IF page = "captions" THEN "pending" ELSE "none"
  /\ saved = <<>>
  /\ notes = <<>>
  /\ isPlaying = FALSE
  /\ speechRate = NormalRate
  /\ synth = NoSynth

NextSpeech ==
  \/ \E s \in Sessions : startCaptioning(s)
  \/ \E s \in Sessions : startListening(s)
  \/ \E s \in Sessions : startVoiceInput(s)
  \/ \E s \in Sessions : onstart(s)
  \/ \E s \in Sessions : onerror(s)
  \/ \E s \in Sessions : onend(s)
  \/ stopCaptioning
  \/ \E s \in Sessions, text \in Phrases : captionFinal(s, text)
  \/ \E s \in Sessions, text \in Phrases : captionInterim(s, text)
  \/ clearCaptions
  \/ \E data \in StoredCaptionLists : captionsLoaded(data)
  \/ captionsLoadFailed
  \/ \E s \in Sessions, text \in Phrases : notesFinal(s, text)
  \/ handlePlayPause
  \/ utteranceEnds
  \/ \E s \in Sessions, heard \in Heard : readerResult(s, heard)

SpecSpeech == InitSpeech /\ [][NextSpeech]_vars

----------------------------------------------------------------------------
(* Server specifications                                                   *)

InitImage ==
  /\ now = 0
  /\ objectDetectionModel = "loading"
  /\ model \in BOOLEAN
  /\ uploads = <<>>
  /\ req = [r \in Reqs |-> IdleReq]
  /\ DbIdle
  /\ UiIdle

NextImage ==
  \/ \E r \in Reqs, file \in UploadFiles, wantGemini \in BOOLEAN :
       Upload(r, file, wantGemini)
  \/ \E r \in Reqs : UploadNothing(r)
  \/ \E r \in Reqs, text \in CloudTexts : CloudSucceeds(r, text)
  \/ \E r \in Reqs : CloudFails(r)
  \/ \E r \in Reqs, predictions \in Predictions : DetectReturns(r, predictions)
  \/ \E r \in Reqs : DetectThrows(r)
  \/ \E r \in Reqs : WorkerCreated(r)
  \/ \E r \in Reqs : OcrThrows(r)
  \/ \E r \in Reqs, text \in OcrTexts : Recognized(r, text)
  \/ \E r \in Reqs : Terminated(r)
  \/ ModelLoaded
  \/ ModelLoadFailed
  \/ Tick

SpecImage == InitImage /\ [][NextImage]_vars

\* the server is listening: start-up has read db.json and written it back
InitDb ==
  /\ now = 0
  /\ \E file \in BootFiles : dbFile = Startup(file) /\ dbData = Startup(file)
  /\ writer = IdleWriter
  /\ hreq = [r \in DbReqs |-> IdleDbReq]
  /\ ImageIdle
  /\ UiIdle

SpecDb == InitDb /\ [][NextDb]_vars

----------------------------------------------------------------------------
(* Properties of POST /api/analyze-image                                   *)

Done(r) == req[r].pc = "done"

DetectionFragments ==
  {NotReadyFragment, FormatFragment, NoObjectsFragment}
    \cup {ObjectsFragment(p) : p \in Predictions \ {<<>>}}

OcrFragments == {OcrFragment(t) : t \in OcrTexts}

\* the request went through Option B only: the cloud step was skipped or failed
LocalOnly(r) == req[r].hasFile /\ req[r].localRuns > 0 /\ ~req[r].cloudOk

\* C2: cloud analysis requested while the cloud model is unavailable or its
\* call fails: the answer is a description with source "local", never an
\* error status.
C2_CloudUnavailableAnswersLocal ==
  \A r \in Reqs :
    ( /\ Done(r)
      /\ req[r].hasFile
      /\ req[r].useGemini
      /\ ~model \/ (req[r].cloudCalls > 0 /\ ~req[r].cloudOk) )
    => /\ req[r].resp.status = 200
       /\ req[r].resp.source = "local"

\* C3: an error status is sent only for a missing file (400) or a failure of
\* local decoding (500); every other failing sub-step still yields a 200
\* response that carries a description.
C3_ErrorsOnlyNoFileOrDecoding ==
  \A r \in Reqs :
    Done(r) =>
      /\ req[r].resp.status \in {200, 400, 500}
      /\ (req[r].resp.status = 400) <=> ~req[r].hasFile
      /\ (req[r].resp.status = 500) => req[r].decodeErr
      /\ (req[r].resp.status = 200) => req[r].resp.description # ""

\* C4: with the detector loaded, a local description always consists of one
\* object-detection fragment followed by one OCR fragment, also when decoding
\* or detection threw.
C4_DetectionFragmentAlwaysPresent ==
  \A r \in Reqs :
    ( /\ Done(r)
      /\ req[r].resp.status = 200
      /\ req[r].resp.source = "local"
      /\ req[r].detSeen = "loaded" )
    => /\ Len(req[r].parts) = 2
       /\ req[r].parts[1] \in DetectionFragments
       /\ req[r].parts[2] \in OcrFragments

\* C5: the step that sends a description (source "gemini" or "local") also
\* deletes the uploaded file: unlinkSync is attempted in that step, and unless
\* it fails the file is gone when the step ends.
C5_DescriptionThenUnlink ==
  [][ \A r \in Reqs :
        (req[r].resp = NoResp /\ req'[r].resp.status = 200)
        => /\ req'[r].unlinks = req[r].unlinks + 1
           /\ req[r].path \notin DOMAIN uploads' ]_vars

C5_Witness ==
  \E r, o \in Reqs :
    /\ Done(r) /\ req[r].resp.source = "local" /\ req[r].unlinkOk
    /\ Done(o) /\ req[o].resp.source = "gemini" /\ req[o].unlinkOk
    /\ req[r].path \notin DOMAIN uploads
    /\ req[o].path \notin DOMAIN uploads

\* C6: one request calls the cloud model at most once and runs the local
\* pipeline at most once, and it runs the local pipeline only when the cloud
\* step was skipped or its call failed.
C6_OnePassPerProvider ==
  \A r \in Reqs :
    /\ req[r].cloudCalls <= 1
    /\ req[r].localRuns <= 1
    /\ req[r].localRuns > 0 => ~req[r].cloudOk

\* C7: a 200 response has source "gemini" exactly when useGemini was "true",
\* the cloud model is configured and its call succeeded, and then carries the
\* cloud model's text unchanged; every other 200 response has source "local".
C7_SourceTag ==
  \A r \in Reqs :
    req[r].resp.status = 200 =>
      /\ req[r].resp.source \in {"gemini", "local"}
      /\ (req[r].resp.source = "gemini")
           <=> (req[r].useGemini /\ model /\ req[r].cloudOk)
      /\ req[r].resp.source = "gemini" => req[r].resp.description = req[r].cloudText

C7_Witness ==
  \E r, o \in Reqs :
    /\ Done(r) /\ req[r].resp.status = 200 /\ req[r].resp.source = "gemini"
    /\ req[r].resp.description \in CloudTexts
    /\ Done(o) /\ req[o].resp.status = 200 /\ req[o].resp.source = "local"
    /\ req[o].useGemini /\ req[o].cloudCalls = 1

\* C9: a local analysis of an upload that is neither JPEG nor PNG, with the
\* detector loaded, answers with the unsupported-format fragment followed by
\* the fragment of the OCR run on the file.
C9_UnsupportedFormatThenOcr ==
  \A r \in Reqs :
    ( /\ Done(r)
      /\ LocalOnly(r)
      /\ req[r].container = "other"
      /\ req[r].detSeen = "loaded" )
    => /\ req[r].resp.status = 200
       /\ req[r].resp.source = "local"
       /\ Len(req[r].parts) = 2
       /\ req[r].parts[1] = FormatFragment
       /\ req[r].parts[2] \in OcrFragments
       /\ req[r].resp.description = FormatFragment \o " " \o req[r].parts[2]

\* C10: a local analysis that reaches B1 while the detector is not loaded
\* (still loading, or its load failed) goes on without waiting and completes
\* with a local description that starts with the not-ready fragment and ends
\* with the OCR fragment.
C10_NotReadyDoesNotBlock ==
  \A r \in Reqs :
    (LocalOnly(r) /\ req[r].detSeen # "loaded")
    => /\ req[r].pc \in {"worker", "recognize", "terminate", "done"}
       /\ req[r].ocrRuns = 1
       /\ Done(r) =>
            /\ req[r].resp.status = 200
            /\ req[r].resp.source = "local"
            /\ Len(req[r].parts) = 2
            /\ req[r].parts[1] = NotReadyFragment
            /\ req[r].parts[2] \in OcrFragments

----------------------------------------------------------------------------
(* Properties of the uploads directory and of the response                 *)

Running(r) == req[r].hasFile /\ req[r].pc \notin {"idle", "done"}

\* C24: a request is answered exactly once: once a description has been
\* sent, a failing unlink leads to no further attempt to respond and to no
\* further analysis pass.
C24_ExactlyOneResponse ==
  \A r \in Reqs :
    /\ Done(r) => (req[r].resp # NoResp /\ ~req[r].unhandled)
    /\ (req[r].resp.status = 200 /\ req[r].unlinks > 0 /\ ~req[r].unlinkOk)
       => (Done(r) /\ req[r].cloudCalls + req[r].localRuns = 1)

\* C25: two requests being processed never have the same upload path, so
\* none has its file overwritten or deleted by the other.
C25_NoSharedUploadPath ==
  \A r, o \in Reqs :
    (r # o /\ Running(r) /\ Running(o)) => req[r].path # req[o].path

\* C27: once a request with an upload has been answered its file is no
\* longer in uploads/ (a file at its path then belongs to a request still
\* being processed), whatever the answer was.
C27_NoUploadLeftBehind ==
  \A r \in Reqs :
    (Done(r) /\ req[r].hasFile /\ req[r].path \in DOMAIN uploads)
    => \E o \in Reqs : o # r /\ Running(o) /\ req[o].path = req[r].path

----------------------------------------------------------------------------
(* Properties of the notes endpoints                                       *)

Posted(r) ==
  /\ hreq[r].kind = "postNote"
  /\ hreq[r].pc = "done"
  /\ hreq[r].resp.status = 200

Listed(g) == hreq[g].kind = "getNotes" /\ hreq[g].pc = "done"

Lists(g, p) ==
  \E i \in 1..Len(hreq[g].resp.list) : hreq[g].resp.list[i] = hreq[p].note

\* C1 as stated: also when the read-modify-write cycles of two POST
\* /api/notes interleave, each posted note is in the list returned by a GET
\* issued after both POSTs have responded.
C1_ConcurrentPostsBothListed ==
  \A g \in DbReqs :
    Listed(g) => \A p \in hreq[g].after : Lists(g, p)

\* C1 amended: a note posted by a POST /api/notes that overlapped no other
\* writing request (POST of a note, a caption or settings) is in the list
\* returned by every GET issued after that POST has responded.
C1_SequentialPostsListed ==
  \A g \in DbReqs :
    Listed(g) => \A p \in hreq[g].after : ~hreq[p].overlapped => Lists(g, p)

C1_Witness ==
  \E g, p, q \in DbReqs :
    /\ p # q
    /\ Listed(g)
    /\ {p, q} \subseteq hreq[g].after
    /\ ~hreq[p].overlapped /\ ~hreq[q].overlapped
    /\ hreq[g].resp.list = <<hreq[p].note, hreq[q].note>>

----------------------------------------------------------------------------
(* Properties of the notes, captions and settings endpoints                *)

\* a writing request the server took up (not one refused with 400)
Accepted(w) ==
  /\ IsWrite(hreq[w].kind)
  /\ ~(hreq[w].pc = "done" /\ hreq[w].resp.status = 400)

\* p was answered with 200, overlapped no other writing request, and no
\* writing request has reached the server since
LastWrite(p) ==
  /\ hreq[p].pc = "done"
  /\ hreq[p].resp.status = 200
  /\ ~hreq[p].overlapped
  /\ \A w \in DbReqs : w > p => ~Accepted(w)

\* the text T of a POST /api/notes or /api/captions
PostedText(p) ==
  IF hreq[p].kind = "postNote" THEN hreq[p].text ELSE hreq[p].body.text

HasText(p) ==
  \/ hreq[p].kind = "postNote"
  \/ hreq[p].kind = "postCaption" /\ "text" \in DOMAIN hreq[p].body

\* list is prev with one record appended, whose text is T
AppendedOne(list, prev, T) ==
  /\ Len(list) = Len(prev) + 1
  /\ SubSeq(list, 1, Len(prev)) = prev
  /\ list[Len(list)].text = T

\* C11: for a POST /api/notes or /api/captions with text T followed, with no
\* other write in between, by a GET of the same collection, the list returned
\* is the list the POST found with exactly one record appended, whose text is
\* T, and the earlier records unchanged.
C11_PostThenGet ==
  \A p, g \in DbReqs :
    ( /\ hreq[p].kind \in {"postNote", "postCaption"}
      /\ HasText(p)
      /\ LastWrite(p)
      /\ hreq[g].kind \in {"getNotes", "getCaptions"}
      /\ hreq[g].pc = "done"
      /\ p \in hreq[g].after )
    => AppendedOne(hreq[g].resp.list, hreq[p].prev, PostedText(p))

C11_Witness ==
  \E p, g \in DbReqs :
    /\ hreq[p].kind = "postCaption"
    /\ HasText(p)
    /\ LastWrite(p)
    /\ hreq[p].prev # <<>>
    /\ hreq[g].kind = "getCaptions"
    /\ hreq[g].pc = "done"
    /\ p \in hreq[g].after
    /\ Len(hreq[g].resp.list) = 2

DistinctIds(list) ==
  \A i, j \in 1..Len(list) : i # j => list[i].id # list[j].id

\* C12: in every state of db.json the notes have pairwise distinct ids and the
\* captions have pairwise distinct ids, also when two records are created in
\* the same millisecond.
C12_DistinctIds ==
  /\ DistinctIds(dbFile.notes)
  /\ "captions" \in DOMAIN dbFile => DistinctIds(dbFile.captions)

\* C14: POST /api/settings with body S followed, with no other write in
\* between, by GET /api/settings: the GET returns the settings stored before
\* merged with S, and the POST was answered with that same record.
C14_SettingsRoundTrip ==
  \A p \in DbReqs :
    (hreq[p].kind = "postSettings" /\ LastWrite(p))
    => /\ hreq[p].resp.settings = Merge(hreq[p].prev, hreq[p].body)
       /\ \A g \in DbReqs :
            (hreq[g].kind = "getSettings" /\ hreq[g].pc = "done"
             /\ p \in hreq[g].after)
            => hreq[g].resp.settings = Merge(hreq[p].prev, hreq[p].body)

\* C18: a POST /api/notes with missing or empty text is answered with 400 in
\* the step it arrives in, and that step leaves db.json, db.data and the
\* writer as they were; the request is finished and takes no later step.
C18_EmptyTextRejected ==
  [][ \A r \in DbReqs :
        (hreq[r].pc = "idle" /\ hreq'[r].kind = "postNote" /\ hreq'[r].text = "")
        => /\ hreq'[r].pc = "done"
           /\ hreq'[r].resp.status = 400
           /\ dbFile' = dbFile /\ dbData' = dbData /\ writer' = writer ]_vars

C18_Witness ==
  \E r \in DbReqs :
    /\ hreq[r].kind = "postNote"
    /\ hreq[r].resp.status = 400
    /\ dbFile.notes # <<>>

\* C19: a POST /api/captions without text is refused with 400 and every
\* caption in db.json has a text.
C19_CaptionsHaveText ==
  /\ \A r \in DbReqs :
       (hreq[r].kind = "postCaption" /\ "text" \notin DOMAIN hreq[r].body
        /\ hreq[r].pc = "done")
       => hreq[r].resp.status = 400
  /\ "captions" \in DOMAIN dbFile
     => \A i \in 1..Len(dbFile.captions) : "text" \in DOMAIN dbFile.captions[i]

\* C20: after start-up and after any requests db.json holds a notes list, a
\* captions list and a settings record, whatever db.json was before start-up.
C20_DocumentComplete ==
  {"notes", "captions", "settings"} \subseteq DOMAIN dbFile

\* w is the only writing request to its collection that the server took up
OnlyOfKind(w) ==
  \A o \in DbReqs : (o # w /\ hreq[o].kind = hreq[w].kind) => ~Accepted(o)

\* the update of the answered POST w is in db.json
InDocument(w) ==
  CASE hreq[w].kind = "postNote" ->
         \E i \in 1..Len(dbFile.notes) : dbFile.notes[i] = hreq[w].note
    [] hreq[w].kind = "postCaption" ->
         /\ "captions" \in DOMAIN dbFile
         /\ \E i \in 1..Len(dbFile.captions) : dbFile.captions[i] = hreq[w].note
    [] OTHER ->
         \A k \in DOMAIN hreq[w].body :
           k \in DOMAIN dbFile.settings /\ dbFile.settings[k] = hreq[w].body[k]

\* C26: updates are lost only between writes to the same collection: when a
\* POST /api/notes and a POST /api/settings or /api/captions have both been
\* answered, each the only write to its collection, and no write is under
\* way, db.json holds both updates, also if the two overlapped.
C26_OtherCollectionKept ==
  \A p, q \in DbReqs :
    ( /\ Posted(p) /\ OnlyOfKind(p)
      /\ hreq[q].kind \in {"postCaption", "postSettings"}
      /\ hreq[q].pc = "done" /\ hreq[q].resp.status = 200 /\ OnlyOfKind(q)
      /\ \A o \in DbReqs : ~InFlight(o) )
    => InDocument(p) /\ InDocument(q)

----------------------------------------------------------------------------
(* Properties of the settings store and its mirror                         *)

Named(q, k) == {i \in 1..Len(q) : k \in DOMAIN q[i]}

\* the call queued last among those of q that name key k
LastNamed(q, k) == CHOOSE i \in Named(q, k) : \A j \in Named(q, k) : j <= i

\* C13: when the queued updateSettings calls are applied, every key named by
\* a call has the value of the last call that names it, every other key
\* keeps its value, and no key appears or disappears otherwise: the calls
\* compose in call order and none is lost.
C13_UpdatesCompose ==
  [][ (queue # <<>> /\ queue' = <<>>)
      => /\ DOMAIN settings'
              = DOMAIN settings \cup UNION {DOMAIN queue[i] : i \in 1..Len(queue)}
         /\ \A k \in DOMAIN settings' :
              IF Named(queue, k) # {}
              THEN settings'[k] = queue[LastNamed(queue, k)][k]
              ELSE settings'[k] = settings[k] ]_vars

C13_Witness ==
  /\ mountFetch = "failed"
  /\ Len(posts) = 2
  /\ queue = <<>>
  /\ "activePersona" \in DOMAIN settings
  /\ settings.contrastMode = "dark"
  /\ settings.dyslexiaFont
  /\ settings.fontSize = 18

\* C15: at start-up, when the server held a non-empty settings record and the
\* GET succeeded, the settings end up as those loaded locally overridden by
\* what the server held when the client started; when the GET failed they
\* stay as loaded locally.
C15_StartupMerge ==
  /\ (mountFetch = "done" /\ queue = <<>> /\ ~mounted.touched
      /\ DOMAIN mounted.server # {})
     => settings = Merge(mounted.local, mounted.server)
  /\ (mountFetch = "failed" /\ ~mounted.touched)
     => settings = mounted.local

\* nothing of the client is pending and the server has processed every POST
Quiet ==
  /\ mountFetch \in {"done", "failed"}
  /\ queue = <<>>
  /\ \A i \in 1..Len(posts) : posts[i].at = "arrived"
  /\ \A r \in DbReqs : hreq[r].kind = "postSettings" => hreq[r].pc = "done"
  /\ ~writer.locked

\* the server's record has every key of the client's settings, with its value
Agree ==
  \A k \in DOMAIN settings :
    k \in DOMAIN dbFile.settings /\ dbFile.settings[k] = settings[k]

\* the server took the client's POSTs in the order they were fired, each
\* one answered before the next arrived
InOrder ==
  \A r1, r2 \in DbReqs :
    (hreq[r1].kind = "postSettings" /\ hreq[r2].kind = "postSettings" /\ r1 < r2)
    => (hreq[r1].seq < hreq[r2].seq /\ ~hreq[r1].overlapped /\ ~hreq[r2].overlapped)

C17_EffectsApplied ==
  (mountFetch # "unmounted" /\ queue = <<>>)
  => /\ localStorage = <<settings>>
     /\ document.root \cap ContrastModes = {settings.contrastMode}
     /\ ("dyslexia-font" \in document.body) = settings.dyslexiaFont

C17_Witness ==
  /\ mountFetch = "done"
  /\ queue = <<>>
  /\ mounted.touched
  /\ Len(posts) = 3
  /\ settings.contrastMode # mounted.local.contrastMode
  /\ settings.dyslexiaFont # mounted.local.dyslexiaFont
  /\ localStorage = <<settings>>

----------------------------------------------------------------------------
(* Properties of the ImageRecognition page                                 *)

DemoTexts ==
  {"[DEMO ANALYSIS]: " \o d \o " (Perfect confidence score: 99.9%)" : d \in mockDescriptions}

\* C8: with demo mode on, every call of analyzeImage ends with the canned
\* "[DEMO ANALYSIS]" description, never with an error text and never without
\* a description, whatever image is or is not selected.
C8_DemoAlwaysSynthetic ==
  \A i \in Runs :
    (run[i].pc = "done" /\ run[i].demoOn)
    => /\ run[i].outcome = "demo"
       /\ run[i].shown \in DemoTexts

\* C28: when the FileReader of an upload delivers its image while no image
\* is selected, the analyzeImage call made by the onload handler sees the
\* new image and starts the analysis (the demo timer or the fetch), so that
\* a description follows.
C28_UploadStartsAnalysis ==
  [][ (reader.busy /\ ~reader'.busy /\ selectedImage = Null)
      => \E i \in Runs :
           /\ run[i].pc = "unused"
           /\ run'[i].pc \in {"demoDelay", "fetching"}
           /\ run'[i].closure.selectedImage = reader.imageUrl
           /\ isAnalyzing' ]_vars

----------------------------------------------------------------------------
(* Properties of demo mode                                                 *)

DemoOn(s) == "demoMode" \in DOMAIN s /\ s.demoMode

\* C23: while settings.demoMode is true the client makes no call to the
\* server: no request is fired by a render whose settings have demoMode on
\* (the settings effect sends the settings it was rendered with as the body
\* of its POST).
C23_DemoModeNoExternalCall ==
  \A i \in 1..Len(posts) : ~DemoOn(posts[i].body)

----------------------------------------------------------------------------
(* Properties of the speech pages                                          *)

Active == {s \in Sessions : sessions[s].state = "active"}

\* C21: at any time at most one recognition session started by a page is
\* active (started and not yet ended), also when start is triggered again
\* before the session before has reported onstart or onend.
C21_OneActiveSession == Cardinality(Active) <= 1

\* the keyword groups of the Reader's voice commands, in their fixed order
Groups == << {KwPlay, KwStart}, {KwPause, KwStop}, {KwFaster}, {KwSlower} >>

InGroup(t, g) == \E w \in Groups[g] : Includes(t, w)

\* the first group of which t contains a keyword; 0 when it contains none
FirstGroup(t) ==
  IF \E g \in DOMAIN Groups : InGroup(t, g)
  THEN CHOOSE g \in DOMAIN Groups :
         InGroup(t, g) /\ \A h \in DOMAIN Groups : h < g => ~InGroup(t, h)
  ELSE 0

\* C22: a transcript triggers exactly the action of the first keyword group
\* it contains (play/start: speech starts; pause/stop: speech pauses; faster,
\* slower: the rate moves one step within its limits) and no other action; a
\* transcript with none of the keywords changes nothing.
C22_FirstMatchWins ==
  [][ \A s \in Sessions :
        (page = "reader" /\ sessions[s].transcript = <<>>
         /\ sessions'[s].transcript # <<>>)
        => LET g == FirstGroup(sessions'[s].transcript)
           IN /\ g = 1 => /\ isPlaying' /\ synth'.queued
                          /\ synth'.paused = synth.paused
                          /\ speechRate' = speechRate
              /\ g = 2 => /\ ~isPlaying' /\ synth'.paused
                          /\ synth'.queued = synth.queued
                          /\ speechRate' = speechRate
              /\ g = 3 => /\ speechRate' = (IF speechRate < FastestRate
                                            THEN speechRate + 1 ELSE FastestRate)
                          /\ isPlaying' = isPlaying /\ synth' = synth
              /\ g = 4 => /\ speechRate' = (IF speechRate > SlowestRate
                                            THEN speechRate - 1 ELSE SlowestRate)
                          /\ isPlaying' = isPlaying /\ synth' = synth
              /\ g = 0 => /\ speechRate' = speechRate
                          /\ isPlaying' = isPlaying /\ synth' = synth ]_vars

\* "stop playing" was heard while the text was being read: play wins, the
\* reading starts again and is not paused
C22_Witness ==
  \E s \in Sessions :
    /\ page = "reader"
    /\ Includes(sessions[s].transcript, KwStop)
    /\ Includes(sessions[s].transcript, KwPlay)
    /\ isPlaying /\ synth.queued /\ ~synth.paused

\* C29: in LiveCaptioning, whenever isListening is true a recognition
\* session is running or being started again: a session that ends while the
\* user has not stopped captioning is restarted.
C29_ListeningMeansSession ==
  (page = "captions" /\ isListening)
  => \E s \in Sessions : sessions[s].state \in {"starting", "active"}

\* caption c occurs in list at least as often as in the history
Kept(list) ==
  \A i \in 1..Len(captions) :
    Cardinality({j \in 1..Len(list) : list[j] = captions[i]})
      >= Cardinality({j \in 1..Len(captions) : captions[j] = captions[i]})

\* C30: the step in which the answer to LiveCaptioning's initial GET
\* /api/captions is taken in drops no caption of the local history.
C30_HistoryKeptOnLoad ==
  [][ (captionsFetch = "pending" /\ captionsFetch' # "pending") => Kept(captions')
    ]_vars

====
